---- MODULE Spec2Model ----
(***************************************************************************)
(* Model of the workflow engine of agent-workflow-engine:                  *)
(* WorkflowEngine.run_workflow and WorkflowEngine._evaluate_condition      *)
(* (src/app/engine.py), driven as src/app/main.py drives it.               *)
(*                                                                         *)
(* A run is a coroutine.  Its only suspension point is the await of the    *)
(* handler (engine.py:67), so one pass of the while loop is one action,    *)
(* except that a pass which calls a handler is split at the await into     *)
(* InvokeHandler and HandlerReturn / HandlerRaise.  The code after the     *)
(* loop (engine.py:112-118) runs in the action of the pass that leaves     *)
(* the loop.                                                               *)
(***************************************************************************)
EXTENDS Integers, Sequences, FiniteSets, TLC

(* ------------------------------ bounds --------------------------------- *)

\* the default of max_iterations
DefaultMaxIterations == 10
\* largest max_iterations a code-review run is started with
ReviewCap == 16

\* largest max_iterations a run is started with
MaxIterBound == 4
\* largest number of conditions in one conditional-edge group
MaxConds == 2

(* --------------------------- values and names -------------------------- *)

\* Python values of the state bag: integers and strings (a string is
\* identified by its rank in lexicographic order)
IntV(n) == <<"int", n>>
StrV(i) == <<"str", i>>

None == "None"
START == "START"
END == "END"
NodeNames == {"A", "B"}
Runs == {1, 2}

EmptyDict == [k \in {} |-> IntV(0)]

\* an update that keeps the old value of a key it already has
Update_KeepOld(d, u) == d @@ u

\* dict.update(): keys of the update take the update's value, the others stay
Update(d, u) == u @@ d

(* --------------------------- handlers (tools) -------------------------- *)

\* what a handler call produces: a dict, another value, or an exception
DictResult(d) == [kind |-> "dict", dict |-> d, other |-> IntV(0), error |-> None]
OtherResult(v) == [kind |-> "other", dict |-> EmptyDict, other |-> v, error |-> None]
RaiseResult(msg) == [kind |-> "raise", dict |-> EmptyDict, other |-> IntV(0), error |-> msg]
NoResult == [kind |-> "absent", dict |-> EmptyDict, other |-> IntV(0), error |-> None]

\* handler "inc": return {"n": state.get("n", 0) + 1}; str + int raises TypeError
Increment(s) ==
    LET n == IF "n" \in DOMAIN s THEN s["n"] ELSE IntV(0)
    IN  IF n[1] = "int"
        THEN DictResult("n" :> IntV(n[2] + 1))
        ELSE RaiseResult("TypeError")

\* handler "fail": raises
Failing(s) == RaiseResult("boom")

\* handler "raw": returns a value that is not a dict
Raw(s) == OtherResult(IntV(7))

(* ------------------- handlers of the code-review tools ----------------- *)

\* lists and booleans of the state bag; a list is identified by a number
\* (for the list of issues: the sum of the numbers of the issues in it)
ListV(code) == <<"list", code>>
BoolV(b) == <<"bool", IF b THEN 1 ELSE 0>>

\* state.get(key, default)
Get(s, key, default) == IF key \in DOMAIN s THEN s[key] ELSE default

Min(a, b) == IF a <= b THEN a ELSE b
Max(a, b) == IF a >= b THEN a ELSE b

\* the issues detect_issues knows, numbered 1, 2, 4, 8
BareExcept == 1
UsesEval == 2
UsesGlobal == 4
LongLines == 8

\* len() of a list of issues
IssueCount(code) ==
    (code % 2) + ((code \div 2) % 2) + ((code \div 4) % 2) + ((code \div 8) % 2)

\* the strings given as "code", by what the tools read off them: the matches
\* of func_pattern, the lines that are neither blank nor comments, the
\* occurrences of the complexity keywords, the issues found.
\*   0: the empty string            1: a two-line function
\*   2: a function returning eval() 3: a function with for, if, else, while
\*   4: global, bare except, eval(), a line of 120 characters, four keywords
CodeSamples ==
    (0 :> [functions |-> 0, line_count |-> 0, keywords |-> 0, issues |-> 0]) @@
    (1 :> [functions |-> 0, line_count |-> 2, keywords |-> 0, issues |-> 0]) @@
    (2 :> [functions |-> 0, line_count |-> 2, keywords |-> 0, issues |-> UsesEval]) @@
    (3 :> [functions |-> 0, line_count |-> 8, keywords |-> 4, issues |-> 0]) @@
    (4 :> [functions |-> 0, line_count |-> 10, keywords |-> 4,
           issues |-> BareExcept + UsesEval + UsesGlobal + LongLines])

\* tools.py:6-17; re.findall on a value that is not a string raises TypeError
extract_functions(s) ==
    LET code == Get(s, "code", StrV(0))
    IN  IF code[1] # "str" THEN RaiseResult("TypeError")
        ELSE DictResult(("functions" :> ListV(CodeSamples[code[2]].functions)) @@
                        ("function_count" :> IntV(CodeSamples[code[2]].functions)))

\* tools.py:20-36; .split of a value that is not a string raises AttributeError
check_complexity(s) ==
    LET code == Get(s, "code", StrV(0))
    IN  IF code[1] # "str" THEN RaiseResult("AttributeError")
        ELSE DictResult(("line_count" :> IntV(CodeSamples[code[2]].line_count)) @@
                        ("complexity_score" :> IntV(CodeSamples[code[2]].keywords)))

\* tools.py:39-64; `in` on a value that is not a string raises TypeError
detect_issues(s) ==
    LET code == Get(s, "code", StrV(0))
    IN  IF code[1] # "str" THEN RaiseResult("TypeError")
        ELSE DictResult(("issues" :> ListV(CodeSamples[code[2]].issues)) @@
                        ("issue_count" :> IntV(IssueCount(CodeSamples[code[2]].issues))))

\* tools.py:67-90; the suggestions are numbered 1, 2, 4 as the issues are
suggest_improvements(s) ==
    LET issues == Get(s, "issues", ListV(0))
        complexity_score == Get(s, "complexity_score", IntV(0))
        line_count == Get(s, "line_count", IntV(0))
    IN  IF issues[1] # "list" \/ complexity_score[1] # "int" \/ line_count[1] # "int"
        THEN RaiseResult("TypeError")
        ELSE LET suggestions == (IF complexity_score[2] > 10 THEN 1 ELSE 0)
                                + (IF IssueCount(issues[2]) > 0 THEN 2 ELSE 0)
                                + (IF line_count[2] > 100 THEN 4 ELSE 0)
                 quality_score == 100 - (IssueCount(issues[2]) * 10)
                                      - (Min(complexity_score[2], 5) * 5)
             IN  DictResult(("suggestions" :> ListV(suggestions)) @@
                            ("quality_score" :> IntV(Max(0, quality_score))))

\* tools.py:93-105
refine_code(s) ==
    LET current_score == Get(s, "quality_score", IntV(0))
        iter == Get(s, "iteration", IntV(0))
    IN  IF current_score[1] # "int" \/ iter[1] # "int" THEN RaiseResult("TypeError")
        ELSE DictResult(("quality_score" :> IntV(Min(100, current_score[2] + 15))) @@
                        ("iteration" :> IntV(iter[2] + 1)) @@
                        ("refinement_applied" :> BoolV(TRUE)))

\* the callable registered under a name, applied to the state
CallTool(callable, s) ==
    CASE callable = "Increment" -> Increment(s)
      [] callable = "Failing" -> Failing(s)
      [] callable = "Raw" -> Raw(s)
      [] callable = "extract_functions" -> extract_functions(s)
      [] callable = "check_complexity" -> check_complexity(s)
      [] callable = "detect_issues" -> detect_issues(s)
      [] callable = "suggest_improvements" -> suggest_improvements(s)
      [] callable = "refine_code" -> refine_code(s)

\* self.tools after the registrations of the setup
Registry == ("inc" :> "Increment") @@ ("fail" :> "Failing") @@ ("raw" :> "Raw")

(* ------------------------- condition evaluator ------------------------- *)

PyBool(b) == IF b THEN "True" ELSE "False"

\* Python's <, <=, >, >= : defined within one type, TypeError across types
Less(a, b) == a[2] < b[2]
\* an ordering whose >= is strict
Ordering_StrictGe(operator, a, b) ==
    IF a[1] # b[1] THEN "TypeError"
    ELSE CASE operator = ">=" -> PyBool(Less(b, a))
           [] operator = ">" -> PyBool(Less(b, a))
           [] operator = "<=" -> PyBool(~Less(b, a))
           [] operator = "<" -> PyBool(Less(a, b))

Ordering(operator, a, b) ==
    IF a[1] # b[1] THEN "TypeError"
    ELSE CASE operator = ">=" -> PyBool(~Less(a, b))
           [] operator = ">" -> PyBool(Less(b, a))
           [] operator = "<=" -> PyBool(~Less(b, a))
           [] operator = "<" -> PyBool(Less(a, b))

\* an evaluator that reads state[field] without the membership test of line 128
evaluate_condition_NoGuard(s, field, operator, value) ==
    IF field \notin DOMAIN s THEN "KeyError"
    ELSE LET state_value == s[field]
         IN  IF operator \in {">=", ">", "<=", "<"}
             THEN Ordering(operator, state_value, value)
             ELSE IF operator = "==" THEN PyBool(state_value = value)
             ELSE IF operator = "!=" THEN PyBool(state_value # value)
             ELSE "False"

evaluate_condition(s, field, operator, value) ==
    IF field \notin DOMAIN s THEN "False"
    ELSE LET state_value == s[field]
         IN  IF operator \in {">=", ">", "<=", "<"}
             THEN Ordering(operator, state_value, value)
             ELSE IF operator = "==" THEN PyBool(state_value = value)
             ELSE IF operator = "!=" THEN PyBool(state_value # value)
             ELSE "False"

(* ------------------------------ the graph ------------------------------ *)

\* a node definition: {"function": name} or a definition without "function"
NodeDef(f) == [function |-> f]

\* a condition of a conditional-edge group
Cond(f, op, v, t) == [field |-> f, operator |-> op, value |-> v, target |-> t]

\* the condition specifications graphs are built from
CondSpecs ==
    { Cond("n", ">=", IntV(1), END),
      Cond("n", "<", IntV(2), "B"),
      Cond("k", "<", IntV(1), "A") }

\* sequences of 1..MaxConds distinct conditions (a dict in insertion order)
CondGroups ==
    UNION { { g \in [1..len -> CondSpecs] :
                \A i, j \in 1..len : i # j => g[i] # g[j] } : len \in 1..MaxConds }

\* the dicts with keys among `keys`, the value of key k drawn from choice[k]
Dicts(keys, choice) ==
    UNION { { d \in [dom -> UNION { choice[k] : k \in dom }] :
                \A k \in dom : d[k] \in choice[k] } : dom \in SUBSET keys }

\* the definitions a node is declared with
NodeChoice ==
    [name \in NodeNames |->
        IF name = "A"
        THEN { NodeDef(f) : f \in {None, "ghost", "inc", "fail", "raw"} }
        ELSE { NodeDef(f) : f \in {"inc", "fail"} }]

\* the targets of the simple edge of a source
EdgeChoice ==
    [name \in {START} \cup NodeNames |->
        CASE name = START -> {"A", END}
          [] name = "A" -> {"A", "B", END}
          [] name = "B" -> {"A", START, END}]

\* the graphs a run is given
NodeTables == Dicts(NodeNames, NodeChoice)
EdgeTables == Dicts({START} \cup NodeNames, EdgeChoice)
CondTables ==
    Dicts({"A"}, [name \in {"A"} |-> CondGroups]) \cup {START :> <<Cond("n", "<", IntV(2), "B")>>}

\* the initial states a run is given
InitialStates ==
    { EmptyDict, ("n" :> IntV(0)) @@ ("k" :> StrV(1)), "n" :> StrV(1) }

(* ------------------------------- state --------------------------------- *)

VARIABLES
    tools,              \* self.tools: name -> callable
    nodes,              \* graph: node name -> node definition
    edges,              \* graph: source -> target
    conditional_edges,  \* graph: source -> ordered conditions
    max_iterations,     \* the iteration cap the runs are started with
    initial_state,      \* per run: the caller's initial_state dict
    state,              \* per run: the run's state dict
    execution_log,      \* per run: the log
    current_node,       \* per run
    iteration,          \* per run
    log_entry,          \* per run: the entry of the pass in progress
    pc,                 \* per run: "loop", "await", "returned", "raised", "unused"
    invoked,            \* per run: the registry names of the handlers called, in order
    eval_call,          \* the arguments of a call of _evaluate_condition
    eval_result,        \* what that call returned
    clock               \* datetime.now(), counted in reads

graph == <<nodes, edges, conditional_edges>>
vars == <<tools, nodes, edges, conditional_edges, max_iterations, initial_state,
          state, execution_log, current_node, iteration, log_entry, pc, invoked,
          eval_call, eval_result, clock>>

(* ----------------------------- log entries ----------------------------- *)

\* engine.py:46-50: the entry a pass starts with; keys it lacks are None
NewEntry(it, node, ts) ==
    [iteration |-> it, node |-> node, timestamp |-> ts, status |-> None,
     output |-> NoResult, error |-> None, reason |-> None, warning |-> None]

SuccessEntry(e, result) == [e EXCEPT !.status = "success", !.output = result]
ErrorEntry(e, msg) == [e EXCEPT !.status = "error", !.error = msg]
SkippedEntry(e) == [e EXCEPT !.status = "skipped", !.reason = "No function defined"]

\* engine.py:113-116: the entry appended after the loop
WarningEntry(ts) ==
    [iteration |-> 0, node |-> None, timestamp |-> ts, status |-> None,
     output |-> NoResult, error |-> None, reason |-> None,
     warning |-> "Max iterations reached"]

NoEntry == NewEntry(0, None, 0)

(* ------------------------------- routing ------------------------------- *)

Raised == "TypeError"

\* a loop over the conditions that lacks the break of line 104: the last
\* condition that evaluates true decides
FirstMatch_NoBreak(conditions, s, i) ==
    LET hits == { j \in i..Len(conditions) :
                    evaluate_condition(s, conditions[j].field, conditions[j].operator,
                                       conditions[j].value) = "True" }
        errors == { j \in i..Len(conditions) :
                      evaluate_condition(s, conditions[j].field, conditions[j].operator,
                                         conditions[j].value) = "TypeError" }
    IN  IF errors # {} THEN Raised
        ELSE IF hits = {} THEN None
        ELSE conditions[CHOOSE j \in hits : \A h \in hits : h <= j].target

\* engine.py:96-104: the target of the first condition that evaluates true,
\* None when there is none, Raised when an evaluation raises before that
RECURSIVE FirstMatch(_, _, _)
FirstMatch(conditions, s, i) ==
    IF i > Len(conditions) THEN None
    ELSE LET c == conditions[i]
             r == evaluate_condition(s, c.field, c.operator, c.value)
         IN  IF r = "TypeError" THEN Raised
             ELSE IF r = "True" THEN c.target
             ELSE FirstMatch(conditions, s, i + 1)

\* edges.get(current_node) without the default of line 108
SimpleEdge_NoDefault(node) == IF node \in DOMAIN edges THEN edges[node] ELSE None

\* engine.py:107-108
SimpleEdge(node) == IF node \in DOMAIN edges THEN edges[node] ELSE END

\* engine.py:89-110
NextNode(node, s) ==
    LET next_node == IF node \in DOMAIN conditional_edges
                     THEN FirstMatch(conditional_edges[node], s, 1)
                     ELSE None
    IN  IF next_node = None THEN SimpleEdge(node) ELSE next_node

\* engine.py:60-64: the node has a function that is registered
HasHandler(node) ==
    /\ node \in DOMAIN nodes
    /\ nodes[node].function # None
    /\ nodes[node].function \in DOMAIN tools

(* ------------------------------ the loop ------------------------------- *)

\* a while test that admits one pass too many
LoopTest_OffByOne(node, it) == node # END /\ it <= max_iterations

\* engine.py:42
LoopTest(node, it) == node # END /\ it < max_iterations

\* engine.py:112-116
WarningTest(it) == it >= max_iterations

\* an engine that counts the iterations of all its runs in one attribute
Return_SharedCounter(r, node, it, log, clk) ==
    LET others == { iteration[q] : q \in Runs \ {r} }
        counter == IF \E o \in others : o > it THEN CHOOSE o \in others : \A p \in others : p <= o
                   ELSE it
    IN  /\ current_node' = [current_node EXCEPT ![r] = node]
        /\ iteration' = [iteration EXCEPT ![r] = it]
        /\ pc' = [pc EXCEPT ![r] = "returned"]
        /\ IF WarningTest(counter)
           THEN /\ execution_log' = [execution_log EXCEPT ![r] = Append(log, WarningEntry(clk))]
                /\ clock' = clk + 1
           ELSE /\ execution_log' = [execution_log EXCEPT ![r] = log]
                /\ clock' = clk

\* engine.py:112-118: the code after the loop, then the return
Return(r, node, it, log, clk) ==
    /\ current_node' = [current_node EXCEPT ![r] = node]
    /\ iteration' = [iteration EXCEPT ![r] = it]
    /\ pc' = [pc EXCEPT ![r] = "returned"]
    /\ IF WarningTest(it)
       THEN /\ execution_log' = [execution_log EXCEPT ![r] = Append(log, WarningEntry(clk))]
            /\ clock' = clk + 1
       ELSE /\ execution_log' = [execution_log EXCEPT ![r] = log]
            /\ clock' = clk

\* the end of a pass that did not break: back to the while test of line 42
EndOfPass(r, node, it, log, clk) ==
    IF LoopTest(node, it)
    THEN /\ current_node' = [current_node EXCEPT ![r] = node]
         /\ iteration' = [iteration EXCEPT ![r] = it]
         /\ pc' = [pc EXCEPT ![r] = "loop"]
         /\ execution_log' = [execution_log EXCEPT ![r] = log]
         /\ clock' = clk
    ELSE Return(r, node, it, log, clk)

\* engine.py:87-110: append the entry, route, and go on; an exception of the
\* evaluator leaves run_workflow (nothing catches it)
AppendAndRoute(r, node, it, entry, s, clk) ==
    LET log == Append(execution_log[r], entry)
        next_node == NextNode(node, s)
    IN  IF next_node = Raised
        THEN /\ pc' = [pc EXCEPT ![r] = "raised"]
             /\ execution_log' = [execution_log EXCEPT ![r] = log]
             /\ iteration' = [iteration EXCEPT ![r] = it]
             /\ clock' = clk
             /\ UNCHANGED current_node
        ELSE EndOfPass(r, next_node, it, log, clk)

\* a pass at START that appends its entry to the log
VisitStart_Logged(r) ==
    /\ pc[r] = "loop"
    /\ current_node[r] = START
    /\ LET it == iteration[r] + 1
           entry_node == IF START \in DOMAIN edges THEN edges[START] ELSE None
           log == Append(execution_log[r], NewEntry(it, START, clock))
       IN  IF entry_node = None
           THEN Return(r, entry_node, it, log, clock + 1)
           ELSE EndOfPass(r, entry_node, it, log, clock + 1)
    /\ UNCHANGED <<tools, graph, max_iterations, initial_state, state, log_entry, invoked,
                   eval_call, eval_result>>

\* engine.py:43-57: a pass at START
VisitStart(r) ==
    /\ pc[r] = "loop"
    /\ current_node[r] = START
    /\ LET it == iteration[r] + 1
           entry_node == IF START \in DOMAIN edges THEN edges[START] ELSE None
       IN  IF entry_node = None
           THEN Return(r, entry_node, it, execution_log[r], clock + 1)
           ELSE EndOfPass(r, entry_node, it, execution_log[r], clock + 1)
    /\ UNCHANGED <<tools, graph, max_iterations, initial_state, state, log_entry, invoked,
                   eval_call, eval_result>>

\* engine.py:43-50, 59-64, 83-110: a pass at a node without a registered function
VisitNode(r) ==
    /\ pc[r] = "loop"
    /\ current_node[r] # START
    /\ ~HasHandler(current_node[r])
    /\ LET it == iteration[r] + 1
           e == NewEntry(it, current_node[r], clock)
           entry == IF current_node[r] \in DOMAIN nodes THEN SkippedEntry(e) ELSE e
       IN  AppendAndRoute(r, current_node[r], it, entry, state[r], clock + 1)
    /\ UNCHANGED <<tools, graph, max_iterations, initial_state, state, log_entry, invoked,
                   eval_call, eval_result>>

\* a pass that calls the handler once directly and once through to_thread
InvokeHandler_Twice(r) ==
    /\ pc[r] = "loop"
    /\ current_node[r] # START
    /\ HasHandler(current_node[r])
    /\ iteration' = [iteration EXCEPT ![r] = @ + 1]
    /\ log_entry' = [log_entry EXCEPT ![r] = NewEntry(iteration[r] + 1, current_node[r], clock)]
    /\ clock' = clock + 1
    /\ invoked' = [invoked EXCEPT ![r] = Append(Append(@, nodes[current_node[r]].function),
                                                 nodes[current_node[r]].function)]
    /\ pc' = [pc EXCEPT ![r] = "await"]
    /\ UNCHANGED <<tools, graph, max_iterations, initial_state, state, execution_log,
                   current_node, eval_call, eval_result>>

\* engine.py:43-50, 59-70: a pass at a node with a registered function, up to
\* the await of the handler
InvokeHandler(r) ==
    /\ pc[r] = "loop"
    /\ current_node[r] # START
    /\ HasHandler(current_node[r])
    /\ iteration' = [iteration EXCEPT ![r] = @ + 1]
    /\ log_entry' = [log_entry EXCEPT ![r] = NewEntry(iteration[r] + 1, current_node[r], clock)]
    /\ clock' = clock + 1
    /\ invoked' = [invoked EXCEPT ![r] = Append(@, nodes[current_node[r]].function)]
    /\ pc' = [pc EXCEPT ![r] = "await"]
    /\ UNCHANGED <<tools, graph, max_iterations, initial_state, state, execution_log,
                   current_node, eval_call, eval_result>>

\* an engine that keeps the state of the latest started run in one attribute
Awaited_SharedState(r) == CallTool(tools[nodes[current_node[r]].function], state[1])

\* the result of the handler in flight
Awaited(r) == CallTool(tools[nodes[current_node[r]].function], state[r])

\* a merge that replaces the state by the result instead of updating it
Merged_Replace(s, result) == IF result.kind = "dict" THEN result.dict ELSE s

\* engine.py:72-77: the state after a handler returned `result`
Merged(s, result) == IF result.kind = "dict" THEN Update(s, result.dict) ELSE s

\* a run whose state is the caller's dict itself, not a copy of it
CallerState_Alias(r, s) == [initial_state EXCEPT ![r] = s]

\* engine.py:37, 72-73: the caller's dicts after run r updated its state to s;
\* the state is a copy made at line 37, so the update does not reach them
CallerState(r, s) == initial_state

\* engine.py:67-77, 87-110: the handler returns
HandlerReturn(r) ==
    /\ pc[r] = "await"
    /\ Awaited(r).kind # "raise"
    /\ LET result == Awaited(r)
           s == Merged(state[r], result)
       IN  /\ state' = [state EXCEPT ![r] = s]
           /\ initial_state' = CallerState(r, s)
           /\ AppendAndRoute(r, current_node[r], iteration[r],
                             SuccessEntry(log_entry[r], result), s, clock)
    /\ log_entry' = [log_entry EXCEPT ![r] = NoEntry]
    /\ UNCHANGED <<tools, graph, max_iterations, invoked, eval_call, eval_result>>

\* an except branch without the break of line 82: the pass goes on to routing
HandlerRaise_NoBreak(r) ==
    /\ pc[r] = "await"
    /\ Awaited(r).kind = "raise"
    /\ AppendAndRoute(r, current_node[r], iteration[r],
                      ErrorEntry(log_entry[r], Awaited(r).error), state[r], clock)
    /\ log_entry' = [log_entry EXCEPT ![r] = NoEntry]
    /\ UNCHANGED <<tools, graph, max_iterations, initial_state, state, invoked,
                   eval_call, eval_result>>

\* engine.py:78-82, 112-118: the handler raises
HandlerRaise(r) ==
    /\ pc[r] = "await"
    /\ Awaited(r).kind = "raise"
    /\ Return(r, current_node[r], iteration[r],
              Append(execution_log[r], ErrorEntry(log_entry[r], Awaited(r).error)), clock)
    /\ log_entry' = [log_entry EXCEPT ![r] = NoEntry]
    /\ UNCHANGED <<tools, graph, max_iterations, initial_state, state, invoked,
                   eval_call, eval_result>>

Step(r) ==
    \/ VisitStart(r)
    \/ VisitNode(r)
    \/ InvokeHandler(r)
    \/ HandlerReturn(r)
    \/ HandlerRaise(r)

Next == \E r \in Runs : Step(r)

\* engine.py:37-40 for the runs in `started`; the other runs are never started
Start(started) ==
    /\ state = initial_state
    /\ execution_log = [r \in Runs |-> <<>>]
    /\ current_node = [r \in Runs |-> START]
    /\ iteration = [r \in Runs |-> 0]
    /\ log_entry = [r \in Runs |-> NoEntry]
    /\ invoked = [r \in Runs |-> <<>>]
    /\ pc = [r \in Runs |-> IF r \in started THEN "loop" ELSE "unused"]
    /\ clock = 0

\* no direct call of the evaluator is made
NoCall == [state |-> EmptyDict, field |-> None, operator |-> None, value |-> IntV(0)]
NoEvaluation == eval_call = NoCall /\ eval_result = None

\* one run of any graph of the catalogue
Init ==
    /\ tools = Registry
    /\ nodes \in NodeTables
    /\ edges \in EdgeTables
    /\ conditional_edges \in CondTables
    /\ max_iterations \in 1..MaxIterBound
    /\ initial_state \in { f \in [Runs -> InitialStates] : f[2] = EmptyDict }
    /\ Start({1})
    /\ NoEvaluation

Spec == Init /\ [][Next]_vars

(* ======================= properties of one run ========================= *)

Last(seq) == seq[Len(seq)]
Returned(r) == pc[r] = "returned"
IsWarning(e) == e.warning # None
HasWarning(log) == \E i \in 1..Len(log) : IsWarning(log[i])
HasError(log) == \E i \in 1..Len(log) : log[i].status = "error"
\* the entries of visited nodes, in log order
NodeEntries(log) == SelectSeq(log, LAMBDA e : ~IsWarning(e))

\* C1: when a handler raised, the returned log ends with the error entry of
\* the node that raised, and that entry is the only error entry.
C1_ErrorEntryIsLast ==
    \A r \in Runs :
        (Returned(r) /\ HasError(execution_log[r])) =>
            /\ Last(execution_log[r]).status = "error"
            /\ Last(execution_log[r]).node = current_node[r]
            /\ \A i \in 1..(Len(execution_log[r]) - 1) :
                   execution_log[r][i].status # "error"

\* the loop was left by its test on the iteration count, at a node other than END
CapExit(r) ==
    /\ iteration[r] >= max_iterations
    /\ current_node[r] \notin {END, None}
    /\ ~HasError(execution_log[r])

\* C2: the returned log holds the warning entry if and only if the loop was
\* left because the iteration count reached max_iterations with the current
\* node not END; runs that reach END, break on an error or have no START edge
\* have no warning.
C2_WarningIffCapExit ==
    \A r \in Runs :
        Returned(r) => (HasWarning(execution_log[r]) <=> CapExit(r))

\* C3: every entry of a visited node has a status among success, error and
\* skipped, and the entry of a node that is undeclared or has no registered
\* function is skipped with a reason.
C3_EveryNodeEntryHasStatus ==
    \A r \in Runs : \A i \in 1..Len(execution_log[r]) :
        LET e == execution_log[r][i]
        IN  ~IsWarning(e) =>
                /\ e.status \in {"success", "error", "skipped"}
                /\ ~HasHandler(e.node) => (e.status = "skipped" /\ e.reason # None)

\* C4: without an edge from START the run ends in its first pass and returns
\* the initial state and an empty log.
C4_NoStartEdgeEmptyRun ==
    \A r \in Runs :
        (Returned(r) /\ START \notin DOMAIN edges) =>
            /\ iteration[r] = 1
            /\ state[r] = initial_state[r]
            /\ execution_log[r] = <<>>

Satisfied(c, s) == evaluate_condition(s, c.field, c.operator, c.value) = "True"
Unsatisfied(c, s) == evaluate_condition(s, c.field, c.operator, c.value) = "False"

\* condition i of the group is the first one satisfied in state s
FirstSatisfied(group, i, s) ==
    /\ Satisfied(group[i], s)
    /\ \A j \in 1..(i - 1) : Unsatisfied(group[j], s)

\* C5: a pass at a node with a conditional-edge group moves to the target of
\* the first condition, in declared order, that the state after the merge
\* satisfies, whatever later conditions and the simple edge say.
C5_FirstMatchWins ==
    [][\A r \in Runs :
         ((VisitNode(r) \/ HandlerReturn(r)) /\ current_node[r] \in DOMAIN conditional_edges) =>
             LET group == conditional_edges[current_node[r]]
             IN  \A i \in 1..Len(group) :
                     FirstSatisfied(group, i, state'[r]) =>
                         /\ pc'[r] # "raised"
                         /\ current_node'[r] = group[i].target]_vars

\* a run has left a node whose first two conditions both held, with different
\* targets, and whose simple edge names a third node: it is at the first target
C5_Witness ==
    \E r \in Runs :
        /\ pc[r] \in {"loop", "returned"}
        /\ NodeEntries(execution_log[r]) # <<>>
        /\ LET e == Last(NodeEntries(execution_log[r]))
           IN  /\ e.status = "success"
               /\ e.output.kind = "dict"
               /\ e.node \in DOMAIN conditional_edges
               /\ e.node \in DOMAIN edges
               /\ LET group == conditional_edges[e.node]
                  IN  /\ Len(group) >= 2
                      /\ Satisfied(group[1], state[r])
                      /\ Satisfied(group[2], state[r])
                      /\ group[1].target # group[2].target
                      /\ edges[e.node] \notin {group[1].target, group[2].target}
                      /\ current_node[r] = group[1].target

\* no edge and no condition of the graph leads to END, and START has an edge
NeverEnding ==
    /\ START \in DOMAIN edges
    /\ \A v \in {START} \cup NodeNames : v \in DOMAIN edges /\ edges[v] # END
    /\ \A v \in DOMAIN conditional_edges :
           \A i \in 1..Len(conditional_edges[v]) : conditional_edges[v][i].target # END

\* C6: on a graph whose routing never reaches END, with handlers that do not
\* raise, the run makes exactly max_iterations passes, returns, and its log
\* ends with the warning.
C6_CapEndsEndlessRun ==
    \A r \in Runs :
        (NeverEnding /\ pc[r] \in {"returned", "raised"} /\ ~HasError(execution_log[r])) =>
            /\ Returned(r)
            /\ iteration[r] = max_iterations
            /\ execution_log[r] # <<>>
            /\ IsWarning(Last(execution_log[r]))

\* the nodes the simple edges lead through from `node`, up to END or n nodes
RECURSIVE ChainFrom(_, _)
ChainFrom(node, n) ==
    IF node = END \/ n = 0 THEN <<>>
    ELSE <<node>> \o ChainFrom(SimpleEdge(node), n - 1)

Chain == IF START \in DOMAIN edges
         THEN ChainFrom(edges[START], Cardinality(NodeNames) + 1)
         ELSE <<>>

\* the callable of the i-th node of the chain
ChainTool(i) == tools[nodes[Chain[i]].function]

\* s overridden by the keys of u
Overridden(s, u) ==
    [key \in DOMAIN s \cup DOMAIN u |-> IF key \in DOMAIN u THEN u[key] ELSE s[key]]

\* the state before the i-th handler of the chain, from the initial state s
RECURSIVE ChainState(_, _)
ChainState(s, i) ==
    IF i = 1 THEN s
    ELSE LET before == ChainState(s, i - 1)
             result == CallTool(ChainTool(i - 1), before)
         IN  IF result.kind = "dict" THEN Overridden(before, result.dict) ELSE before

\* START -> N1 -> ... -> Nk -> END over distinct declared nodes with registered
\* handlers and no conditional edges, none of the handlers raising from s
Linear(s) ==
    /\ Len(Chain) \in 1..Cardinality(NodeNames)
    /\ \A i, j \in 1..Len(Chain) : i # j => Chain[i] # Chain[j]
    /\ \A i \in 1..Len(Chain) :
           /\ Chain[i] \in NodeNames
           /\ HasHandler(Chain[i])
           /\ Chain[i] \notin DOMAIN conditional_edges
           /\ CallTool(ChainTool(i), ChainState(s, i)).kind # "raise"

\* C7: on a linear graph of k nodes with handlers that do not raise, k below
\* max_iterations, the run calls each handler once in chain order, returns the
\* initial state with the returned mappings merged in that order (k increments
\* give counter + k), and its node entries are k success entries for N1..Nk.
C7_LinearChain ==
    \A r \in Runs :
        (pc[r] \in {"returned", "raised"} /\ Linear(initial_state[r])
            /\ Len(Chain) < max_iterations) =>
            LET k == Len(Chain)
                s0 == initial_state[r]
                entries == NodeEntries(execution_log[r])
            IN  /\ Returned(r)
                /\ invoked[r] = [i \in 1..k |-> nodes[Chain[i]].function]
                /\ state[r] = ChainState(s0, k + 1)
                /\ (\A i \in 1..k : ChainTool(i) = "Increment") =>
                       state[r]["n"] = IntV((IF "n" \in DOMAIN s0 THEN s0["n"][2] ELSE 0) + k)
                /\ Len(entries) = k
                /\ \A i \in 1..k :
                       /\ entries[i].node = Chain[i]
                       /\ entries[i].status = "success"
                       /\ entries[i].iteration = i + 1
                       /\ entries[i].output = CallTool(ChainTool(i), ChainState(s0, i))

\* START -> A -> B -> END with two incrementing handlers has run from n = 0
\* to n = 2, below the cap
C7_Witness ==
    \E r \in Runs :
        /\ Returned(r)
        /\ Linear(initial_state[r])
        /\ Len(Chain) = 2
        /\ Len(Chain) + 1 < max_iterations
        /\ \A i \in 1..2 : ChainTool(i) = "Increment"
        /\ "n" \in DOMAIN initial_state[r]
        /\ initial_state[r]["n"] = IntV(0)
        /\ state[r]["n"] = IntV(2)
        /\ Len(execution_log[r]) = 2

\* C8: no exception leaves run_workflow.
C8_NeverRaises == \A r \in Runs : pc[r] # "raised"

\* the state s with the dict outputs of the success entries i.. of the log
\* merged in log order
RECURSIVE Replay(_, _, _)
Replay(s, log, i) ==
    IF i > Len(log) THEN s
    ELSE Replay(IF log[i].status = "success" /\ log[i].output.kind = "dict"
                THEN Overridden(s, log[i].output.dict)
                ELSE s,
                log, i + 1)

\* the entries of the passes that called a handler
HandlerEntries(log) == SelectSeq(log, LAMBDA e : e.status \in {"success", "error"})

\* C12: the step in which a handler raises leaves the state as it was when
\* the handler was called, routes nowhere and ends the run; the returned state
\* is the initial state with the earlier successful outputs merged, and the
\* handler that raised is the last one the run called.
C12_ErrorMergesNothing ==
    /\ [](\A r \in Runs :
            (Returned(r) /\ HasError(execution_log[r])) =>
                LET failed == Last(NodeEntries(execution_log[r]))
                IN  /\ failed.status = "error"
                    /\ state[r] = Replay(initial_state[r], execution_log[r], 1)
                    /\ current_node[r] = failed.node
                    /\ Len(invoked[r]) = Len(HandlerEntries(execution_log[r]))
                    /\ Last(invoked[r]) = nodes[failed.node].function)
    /\ [][\A r \in Runs :
            /\ HandlerRaise(r) =>
                   /\ state'[r] = state[r]
                   /\ current_node'[r] = current_node[r]
                   /\ invoked'[r] = invoked[r]
                   /\ pc'[r] = "returned"
            /\ Returned(r) => (Returned(r)' /\ invoked'[r] = invoked[r]
                                   /\ state'[r] = state[r])]_vars

\* a run returned after a handler raised at its second handler call: the
\* first call's output is in the final state
C12_Witness ==
    \E r \in Runs :
        /\ Returned(r)
        /\ HasError(execution_log[r])
        /\ Len(invoked[r]) = 2
        /\ execution_log[r][1].status = "success"
        /\ execution_log[r][1].output.kind = "dict"
        /\ state[r] # initial_state[r]
        /\ current_node[r] \in DOMAIN edges
        /\ edges[current_node[r]] # END
        /\ iteration[r] < max_iterations

IsPrefix(a, b) == Len(a) <= Len(b) /\ \A i \in 1..Len(a) : a[i] = b[i]

\* C14: a step only appends to the log; the iteration numbers of the node
\* entries increase strictly along the log; every pass adds exactly 1 to the
\* iteration counter, nothing else changes it, and it never exceeds
\* max_iterations.
C14_LogAndIterationMonotone ==
    /\ [](\A r \in Runs :
            LET entries == NodeEntries(execution_log[r])
            IN  /\ iteration[r] <= max_iterations
                /\ \A i \in 1..Len(entries) : entries[i].iteration \in 1..iteration[r]
                /\ \A i, j \in 1..Len(entries) :
                       i < j => entries[i].iteration < entries[j].iteration)
    /\ [][\A r \in Runs :
            /\ IsPrefix(execution_log[r], execution_log'[r])
            /\ (VisitStart(r) \/ VisitNode(r) \/ InvokeHandler(r)) =>
                   iteration'[r] = iteration[r] + 1
            /\ (HandlerReturn(r) \/ HandlerRaise(r)) => iteration'[r] = iteration[r]
            /\ iteration'[r] \in {iteration[r], iteration[r] + 1}]_vars

\* a run that used all its passes: three node entries and the warning
C14_Witness ==
    \E r \in Runs :
        /\ Returned(r)
        /\ iteration[r] = max_iterations
        /\ Len(NodeEntries(execution_log[r])) = 3
        /\ Len(execution_log[r]) = 4
        /\ current_node[r] # END

\* node has no conditional-edge group, or every condition of it is false in s
NoConditionHolds(node, s) ==
    node \in DOMAIN conditional_edges =>
        \A i \in 1..Len(conditional_edges[node]) :
            Unsatisfied(conditional_edges[node][i], s)

\* C15: a pass that visits a node without error and finds no condition of its
\* group true, or no group, moves to edges[node] when that exists and to END
\* otherwise; a node with no edge at all so ends the run at END, and the log
\* gets a warning then only if the iteration counter has reached the cap.
C15_FallbackToSimpleEdge ==
    [][\A r \in Runs :
         ((VisitNode(r) \/ HandlerReturn(r)) /\ NoConditionHolds(current_node[r], state'[r])) =>
             /\ pc'[r] # "raised"
             /\ current_node[r] \in DOMAIN edges =>
                    current_node'[r] = edges[current_node[r]]
             /\ current_node[r] \notin DOMAIN edges =>
                    /\ current_node'[r] = END
                    /\ Returned(r)'
                    /\ iteration'[r] < max_iterations => ~HasWarning(execution_log'[r])]_vars

\* a run has left a node whose conditions were all false by its simple edge,
\* and later ended at END from a node without any edge, with no warning
C15_Witness ==
    \E r \in Runs :
        /\ Returned(r)
        /\ current_node[r] = END
        /\ ~HasWarning(execution_log[r])
        /\ Len(execution_log[r]) = 2
        /\ LET first == execution_log[r][1]
               second == execution_log[r][2]
           IN  /\ first.node \in DOMAIN conditional_edges
               /\ NoConditionHolds(first.node, state[r])
               /\ first.node \in DOMAIN edges
               /\ edges[first.node] = second.node
               /\ second.node # first.node
               /\ second.node \notin DOMAIN edges
               /\ second.node \notin DOMAIN conditional_edges

\* C16: when a handler returns, a mapping result leaves the state equal to the
\* previous state overridden by the result's keys, any other result leaves the
\* state as it was, and in both cases the node's entry is appended with status
\* success and the raw result as its output.
C16_MergeOnSuccess ==
    [][\A r \in Runs :
         (pc[r] = "await" /\ pc'[r] # "await" /\ Awaited(r).kind # "raise") =>
             LET result == Awaited(r)
                 entry == Last(NodeEntries(execution_log'[r]))
             IN  /\ result.kind = "dict" =>
                        /\ state'[r] = Overridden(state[r], result.dict)
                        /\ \A key \in DOMAIN state[r] \ DOMAIN result.dict :
                               key \in DOMAIN state'[r] /\ state'[r][key] = state[r][key]
                        /\ \A key \in DOMAIN result.dict :
                               key \in DOMAIN state'[r] /\ state'[r][key] = result.dict[key]
                 /\ result.kind # "dict" => state'[r] = state[r]
                 /\ Len(NodeEntries(execution_log'[r])) = Len(NodeEntries(execution_log[r])) + 1
                 /\ entry.node = current_node[r]
                 /\ entry.status = "success"
                 /\ entry.output = result]_vars

\* a run logged a success with a non-mapping output and then a success with a
\* mapping output that changed one key of the state and kept another
C16_Witness ==
    \E r \in Runs :
        /\ Len(execution_log[r]) >= 2
        /\ execution_log[r][1].status = "success"
        /\ execution_log[r][1].output.kind = "other"
        /\ execution_log[r][2].status = "success"
        /\ execution_log[r][2].output.kind = "dict"
        /\ \E changed, kept \in DOMAIN initial_state[r] :
               /\ changed \in DOMAIN execution_log[r][2].output.dict
               /\ kept \notin DOMAIN execution_log[r][2].output.dict
               /\ state[r][changed] # initial_state[r][changed]
               /\ state[r][kept] = initial_state[r][kept]

\* C19: a pass at START adds one to the iteration counter and does nothing
\* else: it appends no node entry, calls no handler, leaves the state alone and
\* goes to edges[START] whatever conditions are attached to START.  So no log
\* entry names START or END, and a run calls at most max_iterations - 1
\* handlers and logs at most max_iterations - 1 node entries.
C19_StartPassOnlyCounts ==
    /\ [](\A r \in Runs :
            /\ \A i \in 1..Len(execution_log[r]) : execution_log[r][i].node \notin {START, END}
            /\ pc[r] # "unused" =>
                   /\ Len(invoked[r]) <= max_iterations - 1
                   /\ Len(NodeEntries(execution_log[r])) <= max_iterations - 1)
    /\ [][\A r \in Runs :
            (pc[r] = "loop" /\ current_node[r] = START /\ iteration'[r] # iteration[r]) =>
                /\ iteration'[r] = iteration[r] + 1
                /\ NodeEntries(execution_log'[r]) = NodeEntries(execution_log[r])
                /\ invoked'[r] = invoked[r]
                /\ state'[r] = state[r]
                /\ pc'[r] \in {"loop", "returned"}
                /\ current_node'[r] = IF START \in DOMAIN edges THEN edges[START] ELSE None]_vars

\* a returned run passed START twice, attached to START a condition that was
\* true of its state, and yet went from START to edges[START]
C19_Witness ==
    \E r \in Runs :
        /\ Returned(r)
        /\ START \in DOMAIN conditional_edges
        /\ evaluate_condition(initial_state[r], conditional_edges[START][1].field,
                              conditional_edges[START][1].operator,
                              conditional_edges[START][1].value) = "True"
        /\ Len(NodeEntries(execution_log[r])) >= 2
        /\ iteration[r] = Len(NodeEntries(execution_log[r])) + 2
        /\ execution_log[r][1].node = edges[START]
        /\ edges[START] # conditional_edges[START][1].target

\* C20: no step of a run changes the caller's initial_state, the nodes, the
\* edges, the conditional edges or the tool registry, so after any run they
\* are as they were before the call; merges change the run's state only.
C20_InputsUntouched ==
    [][/\ initial_state' = initial_state
       /\ nodes' = nodes
       /\ edges' = edges
       /\ conditional_edges' = conditional_edges
       /\ tools' = tools]_vars

\* a run has returned, stopped by the cap, with a state in which a key of the
\* initial state has another value
C20_Witness ==
    \E r \in Runs :
        /\ Returned(r)
        /\ HasWarning(execution_log[r])
        /\ \E key \in DOMAIN initial_state[r] : state[r][key] # initial_state[r][key]

(* ------------------------ two concurrent runs -------------------------- *)

\* two runs of one graph on one engine, as two requests to run_graph start
\* them (main.py:59-74); each request brings its own initial state
InitPair ==
    /\ tools = Registry
    /\ nodes \in { d \in NodeTables :
                     /\ "B" \in DOMAIN d /\ d["B"].function = "inc"
                     /\ "A" \in DOMAIN d => d["A"].function # "ghost" }
    /\ edges \in { d \in EdgeTables : START \in DOMAIN d /\ d[START] = "A" }
    /\ conditional_edges \in { d \in CondTables :
                                  START \notin DOMAIN d /\ \A k \in DOMAIN d : Len(d[k]) = 1 }
    /\ max_iterations \in 2..MaxIterBound
    /\ initial_state \in [Runs -> { s \in InitialStates : "n" \in DOMAIN s => "k" \in DOMAIN s }]
    /\ Start(Runs)
    /\ NoEvaluation

SpecPair == InitPair /\ [][Next]_vars

\* a log entry without its timestamp
Plain(e) == [e EXCEPT !.timestamp = 0]
PlainLog(log) == [i \in 1..Len(log) |-> Plain(log[i])]

\* C10: two runs of the same graph from equal initial states end the same
\* way, and when they return, their final states are equal and their logs are
\* equal entry by entry once the timestamps are dropped.
C10_SameInputsSameResult ==
    (initial_state[1] = initial_state[2]
        /\ pc[1] \in {"returned", "raised"} /\ pc[2] \in {"returned", "raised"}) =>
        /\ pc[1] = pc[2]
        /\ Returned(1) =>
               /\ state[1] = state[2]
               /\ PlainLog(execution_log[1]) = PlainLog(execution_log[2])

\* both runs returned from equal initial states after interleaved passes: each
\* called a handler twice, and the logs differ in their timestamps only
C10_Witness ==
    /\ initial_state[1] = initial_state[2]
    /\ Returned(1) /\ Returned(2)
    /\ Len(invoked[1]) >= 2
    /\ state[1] # initial_state[1]
    /\ Len(execution_log[1]) >= 2
    /\ execution_log[1] # execution_log[2]
    /\ execution_log[1][1].timestamp < execution_log[2][1].timestamp
    /\ execution_log[2][1].timestamp < execution_log[1][2].timestamp

\* engine.py:112-118 of a run executed alone: what it returns, timestamps dropped
SoloReturn(s, it, log) ==
    [pc |-> "returned", state |-> s,
     log |-> IF it >= max_iterations THEN Append(log, WarningEntry(0)) ELSE log]

\* engine.py:42-118 of a run executed alone, from the while test on: how it
\* ends, with which state and which log (timestamps dropped)
RECURSIVE SoloRun(_, _, _, _)
SoloRun(node, s, it, log) ==
    IF ~(node # END /\ it < max_iterations) THEN SoloReturn(s, it, log)
    ELSE IF node = START
    THEN IF START \in DOMAIN edges
         THEN SoloRun(edges[START], s, it + 1, log)
         ELSE SoloReturn(s, it + 1, log)
    ELSE LET e == NewEntry(it + 1, node, 0)
             result == IF HasHandler(node)
                       THEN CallTool(tools[nodes[node].function], s)
                       ELSE NoResult
             after == IF result.kind = "dict" THEN Overridden(s, result.dict) ELSE s
             entry == IF HasHandler(node) THEN SuccessEntry(e, result)
                      ELSE IF node \in DOMAIN nodes THEN SkippedEntry(e)
                      ELSE e
         IN  IF result.kind = "raise"
             THEN SoloReturn(s, it + 1, Append(log, ErrorEntry(e, result.error)))
             ELSE IF NextNode(node, after) = Raised
             THEN [pc |-> "raised", state |-> after, log |-> Append(log, entry)]
             ELSE SoloRun(NextNode(node, after), after, it + 1, Append(log, entry))

\* the other run
Other(r) == CHOOSE q \in Runs : q # r

\* C11: two runs interleaved at their passes and awaits each end as they do
\* when executed alone, with the same final state and the same log up to
\* timestamps, and no step of a run changes the state, log, current node or
\* iteration counter of the other run.
C11_InterleavingIsInvisible ==
    /\ [](\A r \in Runs :
            pc[r] \in {"returned", "raised"} =>
                LET alone == SoloRun(START, initial_state[r], 0, <<>>)
                IN  /\ pc[r] = alone.pc
                    /\ state[r] = alone.state
                    /\ PlainLog(execution_log[r]) = alone.log)
    /\ [][\A r \in Runs :
            Step(r) =>
                /\ state'[Other(r)] = state[Other(r)]
                /\ execution_log'[Other(r)] = execution_log[Other(r)]
                /\ current_node'[Other(r)] = current_node[Other(r)]
                /\ iteration'[Other(r)] = iteration[Other(r)]]_vars

\* two runs from different initial states have returned different results
\* after interleaved handler calls
C11_Witness ==
    /\ initial_state[1] # initial_state[2]
    /\ Returned(1) /\ Returned(2)
    /\ Len(invoked[1]) >= 2 /\ Len(invoked[2]) >= 2
    /\ state[1] # state[2]
    /\ Len(execution_log[1]) >= 2 /\ Len(execution_log[2]) >= 2
    /\ execution_log[1][1].timestamp < execution_log[2][1].timestamp
    /\ execution_log[2][1].timestamp < execution_log[1][2].timestamp

\* the handler calls of run r that have not completed
InFlight(r) == Len(invoked[r]) - Len(HandlerEntries(execution_log[r]))

\* C13: a run has at most one handler call in flight, exactly while it awaits;
\* every pass at a declared node with a registered function calls that
\* function exactly once; and while the call is in flight the run's current
\* node, log, state and iteration counter do not change.
C13_OneHandlerInFlight ==
    /\ [](\A r \in Runs :
            LET done == HandlerEntries(execution_log[r])
                entries == NodeEntries(execution_log[r])
            IN  /\ InFlight(r) = (IF pc[r] = "await" THEN 1 ELSE 0)
                /\ \A i \in 1..Len(done) : invoked[r][i] = nodes[done[i].node].function
                /\ \A i \in 1..Len(entries) :
                       HasHandler(entries[i].node) <=> entries[i].status \in {"success", "error"}
                /\ pc[r] = "await" =>
                       /\ HasHandler(current_node[r])
                       /\ Last(invoked[r]) = nodes[current_node[r]].function)
    /\ [][\A r \in Runs :
            /\ (pc[r] = "await" /\ pc'[r] = "await") =>
                   /\ current_node'[r] = current_node[r]
                   /\ execution_log'[r] = execution_log[r]
                   /\ state'[r] = state[r]
                   /\ iteration'[r] = iteration[r]
                   /\ invoked'[r] = invoked[r]
            /\ InvokeHandler(r) =>
                   /\ current_node'[r] = current_node[r]
                   /\ execution_log'[r] = execution_log[r]
                   /\ state'[r] = state[r]
            /\ (VisitStart(r) \/ VisitNode(r)) => invoked'[r] = invoked[r]]_vars

\* both runs await a handler, the first one its second call, after the other
\* run made passes of its own
C13_Witness ==
    /\ pc[1] = "await" /\ pc[2] = "await"
    /\ Len(invoked[1]) = 2
    /\ Len(execution_log[1]) = 1
    /\ Len(execution_log[2]) >= 1
    /\ execution_log[1][1].timestamp < execution_log[2][1].timestamp
    /\ execution_log[2][1].timestamp < log_entry[1].timestamp

(* ----------------------- the evaluator on its own ---------------------- *)

Values == {IntV(0), IntV(1), IntV(2), StrV(1), StrV(2)}
Operators == {">=", ">", "<=", "<", "==", "!=", "in"}
Fields == {"n", "k", "q"}

\* the calls _evaluate_condition(state, field, operator, value) considered
EvalCalls ==
    { [state |-> s, field |-> f, operator |-> op, value |-> v] :
        s \in Dicts({"n", "k"}, [key \in {"n", "k"} |-> Values]),
        f \in Fields, op \in Operators, v \in Values }

EmptyNodes == [name \in {} |-> NodeDef(None)]
EmptyEdges == [name \in {} |-> END]
EmptyConds == [name \in {} |-> <<>>]

InitEval ==
    /\ tools = Registry
    /\ nodes = EmptyNodes
    /\ edges = EmptyEdges
    /\ conditional_edges = EmptyConds
    /\ max_iterations = 1
    /\ initial_state = [r \in Runs |-> EmptyDict]
    /\ Start({})
    /\ eval_call \in EvalCalls
    /\ eval_result = None

\* engine.py:120-146, called with the arguments of eval_call
Evaluate ==
    /\ eval_result = None
    /\ eval_result' = evaluate_condition(eval_call.state, eval_call.field,
                                         eval_call.operator, eval_call.value)
    /\ UNCHANGED <<tools, graph, max_iterations, initial_state, state, execution_log,
                   current_node, iteration, log_entry, pc, invoked, eval_call, clock>>

NextEval == Evaluate

SpecEval == InitEval /\ [][NextEval]_vars

\* C9: _evaluate_condition returns False, and raises nothing, whenever the
\* field is not a key of the state, whatever the operator and the literal.
C9_AbsentFieldIsFalse ==
    (eval_result # None /\ eval_call.field \notin DOMAIN eval_call.state) =>
        eval_result = "False"

\* a call with an ordering operator on a field the non-empty state lacks, the
\* literal a string, has returned False
C9_Witness ==
    /\ eval_result = "False"
    /\ eval_call.state # EmptyDict
    /\ eval_call.field \notin DOMAIN eval_call.state
    /\ eval_call.operator = "<"
    /\ eval_call.value = StrV(1)

\* the comparison (a OP b) of two values of one type, as a boolean
Natural(operator, a, b) ==
    CASE operator = ">=" -> a[2] >= b[2]
      [] operator = ">" -> a[2] > b[2]
      [] operator = "<=" -> a[2] <= b[2]
      [] operator = "<" -> a[2] < b[2]
      [] operator = "==" -> a[2] = b[2]
      [] operator = "!=" -> a[2] # b[2]

\* C17: with the field present, _evaluate_condition returns the natural
\* comparison of the state value with the literal for the six operators when
\* the two values have one type, and False for every other operator.
C17_NaturalComparison ==
    (eval_result # None /\ eval_call.field \in DOMAIN eval_call.state) =>
        LET state_value == eval_call.state[eval_call.field]
        IN  /\ (eval_call.operator \in {">=", ">", "<=", "<", "==", "!="}
                    /\ state_value[1] = eval_call.value[1]) =>
                   eval_result = PyBool(Natural(eval_call.operator, state_value, eval_call.value))
            /\ eval_call.operator \notin {">=", ">", "<=", "<", "==", "!="} =>
                   eval_result = "False"

\* a call of >= on a present field equal to the literal has returned True
C17_Witness ==
    /\ eval_result = "True"
    /\ eval_call.field \in DOMAIN eval_call.state
    /\ eval_call.operator = ">="
    /\ eval_call.state[eval_call.field] = eval_call.value
    /\ eval_call.value = IntV(1)

(* ----------------------- the code-review workflow ---------------------- *)

ReviewTools ==
    {"extract_functions", "check_complexity", "detect_issues", "suggest_improvements",
     "refine_code"}

\* self.tools as main.py leaves it: nothing is registered
NoTools == [name \in {} |-> None]
\* self.tools with every tool of tools.py registered under its own name
ReviewRegistry == [name \in ReviewTools |-> name]

\* code_review.py:13-34
ReviewNodes == [name \in ReviewTools |-> NodeDef(name)]

\* code_review.py:37-45
ReviewEdges ==
    (START :> "extract_functions") @@
    ("extract_functions" :> "check_complexity") @@
    ("check_complexity" :> "detect_issues") @@
    ("detect_issues" :> "suggest_improvements") @@
    ("suggest_improvements" :> "check_quality") @@
    ("check_quality" :> END) @@
    ("refine_code" :> "suggest_improvements")

\* code_review.py:48-63
ReviewConds ==
    "check_quality" :> << Cond("quality_score", "<", IntV(80), "refine_code"),
                          Cond("quality_score", ">=", IntV(80), END) >>

\* the initial states of a review: no code, a code string, a code that is no string
ReviewStates ==
    {EmptyDict, "code" :> IntV(5)} \cup { "code" :> StrV(i) : i \in DOMAIN CodeSamples }

\* one run of the code-review workflow
InitReview ==
    /\ tools \in {NoTools, ReviewRegistry}
    /\ nodes = ReviewNodes
    /\ edges = ReviewEdges
    /\ conditional_edges = ReviewConds
    /\ max_iterations \in DefaultMaxIterations..ReviewCap
    /\ initial_state \in { f \in [Runs -> ReviewStates] : f[2] = EmptyDict }
    /\ Start({1})
    /\ NoEvaluation

SpecReview == InitReview /\ [][Next]_vars

\* C18: with the tools registered and the largest cap, a review whose handlers
\* raised nothing has, when it returns, reached END with a quality_score of at
\* least 80 in its state.
C18_ReviewEndsWithQuality ==
    \A r \in Runs :
        (Returned(r) /\ tools = ReviewRegistry /\ max_iterations = ReviewCap
             /\ ~HasError(execution_log[r])) =>
            /\ current_node[r] = END
            /\ "quality_score" \in DOMAIN state[r]
            /\ state[r]["quality_score"][2] >= 80

====
